---------------------------- MODULE Spec2Model ----------------------------
(***************************************************************************)
(* A model of the three platform scrapers (Amazon, Flipkart, Myntra):      *)
(* scrapeProduct's pipeline with its try / catch / finally, the in-page    *)
(* functions findFirstNonSponsoredProduct and extractProductDetails, and   *)
(* the controller functions that wrap the raw record into the envelope.    *)
(*                                                                         *)
(* Strings are sequences of tokens (words, markers, whitespace), so that   *)
(* trim, whitespace collapsing, includes, startsWith and concatenation are *)
(* computed and not assumed.  A JavaScript value is a record [t, v, s]:    *)
(* t is its type tag, v its number, s its string.                          *)
(***************************************************************************)
EXTENDS Integers, Sequences, FiniteSets, TLC

VARIABLES
    platform,         \* which scraper runs: "amazon", "flipkart", "myntra"
    pc,               \* the call's position in scrapeProduct / the controller
    browser,          \* "none" (not launched), "open", "closed"
    listing,          \* the candidates of the rendered results page, in page order
    product,          \* the rendered product page (a record of its elements)
    firstProductUrl,  \* what findFirstNonSponsoredProduct returned
    navigatedTo,      \* the URL of the product-page navigation, <<>> when none
    productDetails,   \* the raw record extractProductDetails returned
    error,            \* the exception in flight ("" when none)
    output,           \* the envelope the controller returned
    log,              \* the pipeline steps executed so far, in order
    request,          \* the HTTP request the route received
    response,         \* the HTTP response the route sent
    nodeEnv,          \* process.env.NODE_ENV as the route read it ("unread" before)
    nav,              \* the navigation a key press started: "idle", "loading", "loaded"
    calls,            \* concurrent calls: each call's position and its browser
    sessions          \* the browser sessions launched so far, by session id

vars == <<platform, pc, browser, listing, product, firstProductUrl,
          navigatedTo, productDetails, error, output, log,
          request, response, nodeEnv, nav, calls, sessions>>

Platforms == {"amazon", "flipkart", "myntra"}

-----------------------------------------------------------------------------
(* Bounds of the model.                                                    *)

\* candidates on a results page given to findFirstNonSponsoredProduct alone
MaxCands == 3
\* candidates on a results page inside the whole pipeline
MaxListing == 2
\* elements matched by one offer selector group (single-group platforms)
MaxOfferEls == 4
\* elements matched by each of Amazon's three offer selector groups
MaxGroupEls == 2
\* largest price / mrp on a product page
MaxPrice == 4

\* the number of calls that may be in flight together
MaxCalls == 2

-----------------------------------------------------------------------------
(* JavaScript values.                                                      *)

Null == [t |-> "null", v |-> 0, s |-> ""]
Undefined == [t |-> "undefined", v |-> 0, s |-> ""]
NaN == [t |-> "nan", v |-> 0, s |-> ""]
Num(n) == [t |-> "num", v |-> n, s |-> ""]
Str(x) == [t |-> "str", v |-> 0, s |-> x]

\* JavaScript truthiness: null, undefined, NaN, 0 and "" are falsy
Truthy(x) ==
    \/ x.t = "num" /\ x.v # 0
    \/ x.t = "str" /\ x.s # ""

Min(a, b) == IF a < b THEN a ELSE b

\* every sequence over S of length at most n
RECURSIVE SeqsUpTo(_, _)
SeqsUpTo(S, n) ==
    IF n = 0 THEN {<<>>}
    ELSE LET shorter == SeqsUpTo(S, n - 1)
         IN  shorter \cup {Append(q, x) : q \in {r \in shorter : Len(r) = n - 1}, x \in S}

-----------------------------------------------------------------------------
(* The results page: listing candidates.                                   *)

\* String.prototype.toLowerCase().trim() on a label text
LowerTrim(raw) ==
    CASE raw = "Sponsored"   -> "sponsored"
      [] raw = " Sponsored " -> "sponsored"
      [] raw = "Ad"          -> "ad"
      [] OTHER               -> raw

\* the origin each scraper prefixes to a relative href
Origin(p) ==
    CASE p = "amazon"   -> "https://www.amazon.in"
      [] p = "flipkart" -> "https://www.flipkart.com"
      [] p = "myntra"   -> "https://www.myntra.com/"

\* the path segment of a product-detail link on each platform
ProductMarker(p) ==
    CASE p = "amazon"   -> "/dp/"
      [] p = "flipkart" -> "/p/"
      [] p = "myntra"   -> "/buy"

\* href.startsWith('http')
StartsWithHttp(href) ==
    Len(href) > 0 /\ href[1] \in {Origin(p) : p \in Platforms}

\* href.includes(marker)
Includes(href, marker) == \E i \in 1..Len(href) : href[i] = marker

\* the href of the i-th candidate's anchor, by kind of link
HrefOf(p, kind, i) ==
    CASE kind = "nolink" -> <<>>
      [] kind = "nomark" -> <<"/gp/slredirect/", ToString(i)>>
      [] kind = "rel"    -> <<ProductMarker(p), ToString(i)>>
      [] kind = "abs"    -> <<Origin(p), ProductMarker(p), ToString(i)>>

LinkKinds == {"nolink", "nomark", "rel", "abs"}

\* what a candidate can carry: no signal, or one of the four signals
\* (marker element, text node, class bucket, label element)
SignalKinds == {"organic", "marker", "textSponsored", "textAd", "class", "label"}

Candidate(p, sig, link, i) ==
    [ marker |-> sig = "marker",
      text   |-> CASE sig = "textSponsored" -> " Sponsored "
                   [] sig = "textAd"        -> "Ad"
                   [] OTHER                 -> "Brand",
      cls    |-> sig = "class",
      label  |-> sig = "label",
      link   |-> link # "nolink",
      href   |-> HrefOf(p, link, i) ]

\* a candidate without a signal has any kind of link; one with a signal
\* has a product link, relative or absolute
CandKinds ==
    ({"organic"} \X LinkKinds) \cup ((SignalKinds \ {"organic"}) \X {"rel", "abs"})

\* the results pages of platform p with at most n candidates
Listings(p, n) ==
    { [i \in 1..Len(ks) |-> Candidate(p, ks[i][1], ks[i][2], i)] :
        ks \in SeqsUpTo(CandKinds, n) }


-----------------------------------------------------------------------------
(* findFirstNonSponsoredProduct: the in-page scan of the results page.      *)

\* Amazon: sponsored by attribute, by a span whose text is "sponsored",
\* by class, or by label element
AmazonIsSponsored(c) ==
    LET isSponsoredByAttr == c.marker
        hasSponshoredText == LowerTrim(c.text) = "sponsored"
        hasSponsoredClass == c.cls
        hasSponsoredLabel == c.label
    IN  isSponsoredByAttr \/ hasSponshoredText \/ hasSponsoredClass \/ hasSponsoredLabel

\* Flipkart: a badge / label element inside the container, or an ancestor in
\* a sponsored class; sponsoredTexts and containerText are computed but
\* never read
FlipkartIsSponsored(c) ==
    LET hasSponsored == c.marker \/ c.label
        isParentSponsored == c.cls
    IN  hasSponsored \/ isParentSponsored

\* Myntra: a span or div whose text is "sponsored" or "ad"
MyntraIsSponsored(c) ==
    LET text == LowerTrim(c.text)
    IN  text = "sponsored" \/ text = "ad"

IsSponsored(p, c) ==
    CASE p = "amazon"   -> AmazonIsSponsored(c)
      [] p = "flipkart" -> FlipkartIsSponsored(c)
      [] p = "myntra"   -> MyntraIsSponsored(c)

\* a check that accepts any href, product link or not
AnyHrefAccepted(p, c) == c.link /\ c.href # <<>>

\* the check on the anchor's href before it is accepted
HrefAccepted(p, c) ==
    /\ c.link
    /\ c.href # <<>>
    /\ CASE p = "amazon"   -> Includes(c.href, "/dp/")
         [] p = "flipkart" -> Includes(c.href, "/p/")
         [] p = "myntra"   -> TRUE

\* href.startsWith('http') ? href : origin + href
FullUrl(p, href) ==
    IF StartsWithHttp(href) THEN href ELSE <<Origin(p)>> \o href

\* null, as findFirstNonSponsoredProduct returns it
NoUrl == <<>>

\* the for-loop over the candidates from position i on
RECURSIVE ScanFrom(_, _, _)
ScanFrom(p, cands, i) ==
    IF i > Len(cands) THEN NoUrl
    ELSE IF IsSponsored(p, cands[i]) THEN ScanFrom(p, cands, i + 1)
    ELSE IF HrefAccepted(p, cands[i]) THEN FullUrl(p, cands[i].href)
    ELSE ScanFrom(p, cands, i + 1)

findFirstNonSponsoredProduct(p, cands) == ScanFrom(p, cands, 1)

-----------------------------------------------------------------------------
(* The product page: its elements and the texts they carry.                *)

\* a price-like element: absent, or a text that is digits (n), possibly
\* with a leading rupee sign (sym), or a text with no digits at all (junk)
NoEl == [present |-> FALSE, sym |-> FALSE, junk |-> FALSE, n |-> 0]
NumEl(sym, n) == [present |-> TRUE, sym |-> sym, junk |-> FALSE, n |-> n]
JunkEl == [present |-> TRUE, sym |-> FALSE, junk |-> TRUE, n |-> 0]

\* a rating-count element: "1,234" (int 1234), "2k" (int 2, k), "1.2k"
\* (int 1, frac 2, k); frac = -1 when the text has no decimal point
NoCount == [present |-> FALSE, junk |-> FALSE, int |-> 0, frac |-> -1, k |-> FALSE]
CountEl(int, frac, k) ==
    [present |-> TRUE, junk |-> FALSE, int |-> int, frac |-> frac, k |-> k]
JunkCount == [present |-> TRUE, junk |-> TRUE, int |-> 0, frac |-> -1, k |-> FALSE]

\* an element read for its text (seller, availability, delivery)
NoText == [present |-> FALSE, text |-> "", disabled |-> FALSE]
TextEl(text, disabled) == [present |-> TRUE, text |-> text, disabled |-> disabled]

\* parseFloat(text.replace(/[₹,]/g, '').trim())              (Amazon)
\* parseFloat(text.replace(/[₹,\s]/g, '').trim())            (Myntra price)
\* parseFloat(text.replace(/[₹,\sMRP]/g, '').trim())         (Myntra mrp)
ParseRupees(el) == IF el.junk THEN NaN ELSE Num(el.n)

\* parseFloat(text.replace(/[‚Çπ,]/g, '').trim())            (Flipkart)
\* the class holds the three characters of a mis-decoded rupee sign, so a
\* leading rupee sign stays in the text and parseFloat gives NaN
ParseFlipkartRupees(el) == IF el.junk \/ el.sym THEN NaN ELSE Num(el.n)

\* Math.round(((mrp - price) / mrp) * 100), for mrp > 0: halves round up
RoundPercent(price, mrp) == (200 * (mrp - price) + mrp) \div (2 * mrp)

-----------------------------------------------------------------------------
(* Offer texts: sequences of tokens.                                       *)

IsSpace(tok) == tok \in {" ", "\n"}

\* the number of characters of a token
TokLen(tok) ==
    CASE tok = " "            -> 1
      [] tok = "\n"           -> 1
      [] tok = "hi"           -> 2
      [] tok = "T&C"          -> 3
      [] tok = "apply"        -> 5
      [] tok = "BankOffer10"  -> 11
      [] tok = "FreeDelivery" -> 12
      [] tok = "NoCostEMIon3" -> 12

\* text.length
RECURSIVE CharLen(_)
CharLen(text) == IF text = <<>> THEN 0 ELSE TokLen(Head(text)) + CharLen(Tail(text))

\* String.prototype.trim()
RECURSIVE TrimLeft(_)
TrimLeft(text) ==
    IF text # <<>> /\ IsSpace(Head(text)) THEN TrimLeft(Tail(text)) ELSE text

RECURSIVE TrimRight(_)
TrimRight(text) ==
    IF text # <<>> /\ IsSpace(text[Len(text)])
    THEN TrimRight(SubSeq(text, 1, Len(text) - 1))
    ELSE text

Trim(text) == TrimRight(TrimLeft(text))

\* text.replace(/\s+/g, ' '): every run of whitespace becomes one space
RECURSIVE Collapse(_)
Collapse(text) ==
    IF text = <<>> THEN <<>>
    ELSE IF IsSpace(Head(text))
         THEN <<" ">> \o Collapse(TrimLeft(text))
         ELSE <<Head(text)>> \o Collapse(Tail(text))

\* textContent.trim().replace(/\s+/g, ' ')
Normalize(text) == Collapse(Trim(text))

\* text.substring(0, n), cut at a token boundary
RECURSIVE Substring(_, _)
Substring(text, n) ==
    IF text = <<>> \/ TokLen(Head(text)) > n THEN <<>>
    ELSE <<Head(text)>> \o Substring(Tail(text), n - TokLen(Head(text)))

\* text.replace(/T&C.*$/i, ''): the text before the first "T&C"
RECURSIVE BeforeTnC(_)
BeforeTnC(text) ==
    IF text = <<>> \/ Head(text) = "T&C" THEN <<>>
    ELSE <<Head(text)>> \o BeforeTnC(Tail(text))

\* text.toLowerCase() includes 'offer', 'cashback' or 'discount'
HasOfferWord(text) == \E i \in 1..Len(text) : text[i] = "BankOffer10"

\* offers.includes(text)
Contains(offers, text) == \E i \in 1..Len(offers) : offers[i] = text

\* offers.slice(0, n)
Slice(offers, n) == SubSeq(offers, 1, Min(Len(offers), n))

\* the raw texts an offer element may carry
OfferA == <<"BankOffer10", " ", "FreeDelivery">>
OfferAPadded == <<" ", "BankOffer10", "\n", " ", "FreeDelivery", " ">>
OfferB == <<"FreeDelivery">>
OfferBTerms == <<"FreeDelivery", " ", "T&C", " ", "apply">>
OfferC == <<"NoCostEMIon3">>
OfferShort == <<"hi">>

\* an offer element: its text, and whether it holds a title child (Myntra
\* reads the text of the element's .pdp-offers-offerTitle child)
OfferEl(text, title) == [text |-> text, title |-> title]

-----------------------------------------------------------------------------
(* extractProductDetails: the offers.                                      *)

\* a cap that lets one more offer through
OneOfferMore == 3 + 1

\* how many offers a scraper keeps
TopOffers == 3

\* if (offerText && offerText.length > 10)
Qualifies(offerText) == offerText # <<>> /\ CharLen(offerText) > 10

\* Amazon, offer badges:
\* for (i = 0; i < Math.min(offerBadges.length, 3); i++) ... offers.push
RECURSIVE AmazonBadges(_, _, _)
AmazonBadges(els, i, offers) ==
    IF ~(i < Min(Len(els), TopOffers)) THEN offers
    ELSE LET offerText == Normalize(els[i + 1].text)
         IN  AmazonBadges(els, i + 1,
                 IF Qualifies(offerText) THEN Append(offers, offerText) ELSE offers)

\* Amazon, coupons: the loop bound 3 - offers.length is read again before
\* every iteration
RECURSIVE AmazonCoupons(_, _, _)
AmazonCoupons(els, i, offers) ==
    IF ~(i < Min(Len(els), TopOffers - Len(offers))) THEN offers
    ELSE LET offerText == Normalize(els[i + 1].text)
         IN  AmazonCoupons(els, i + 1,
                 IF Qualifies(offerText) THEN Append(offers, offerText) ELSE offers)

\* Amazon, bank offers: for (elem of bankOffers) { if (offers.length >= 3) break; ... }
RECURSIVE AmazonBankOffers(_, _, _)
AmazonBankOffers(els, i, offers) ==
    IF i > Len(els) \/ Len(offers) >= TopOffers THEN offers
    ELSE LET raw == els[i].text
         IN  AmazonBankOffers(els, i + 1,
                 IF HasOfferWord(raw) /\ CharLen(raw) > 20
                 THEN Append(offers, Substring(Normalize(raw), 200))
                 ELSE offers)

AmazonOffers(page) ==
    LET badges  == AmazonBadges(page.offers1, 0, <<>>)
        coupons == IF Len(badges) < TopOffers
                   THEN AmazonCoupons(page.offers2, 0, badges) ELSE badges
        bank    == IF Len(coupons) < TopOffers
                   THEN AmazonBankOffers(page.offers3, 1, coupons) ELSE coupons
    IN  Slice(bank, TopOffers)

\* Flipkart: the first three offer elements, cleaned of their "T&C" tail and
\* kept when not collected already
RECURSIVE FlipkartLoop(_, _, _)
FlipkartLoop(els, i, offers) ==
    IF ~(i < Min(Len(els), TopOffers)) THEN offers
    ELSE LET offerText == Normalize(els[i + 1].text)
             cleanText == Trim(BeforeTnC(offerText))
         IN  FlipkartLoop(els, i + 1,
                 IF Qualifies(offerText) /\ cleanText # <<>> /\ ~Contains(offers, cleanText)
                 THEN Append(offers, cleanText) ELSE offers)

FlipkartOffers(page) == Slice(FlipkartLoop(page.offers1, 0, <<>>), TopOffers)

\* Myntra: the titles of the first three offer elements
RECURSIVE MyntraLoop(_, _, _)
MyntraLoop(els, i, offers) ==
    IF ~(i < Min(Len(els), TopOffers)) THEN offers
    ELSE LET offerText == Normalize(els[i + 1].text)
         IN  MyntraLoop(els, i + 1,
                 IF els[i + 1].title /\ Qualifies(offerText)
                 THEN Append(offers, offerText) ELSE offers)

MyntraOffers(page) == Slice(MyntraLoop(page.offers1, 0, <<>>), TopOffers)

-----------------------------------------------------------------------------
(* extractProductDetails: the scalar fields.                               *)

\* Amazon price: .a-price-whole, else the off-screen price
AmazonPrice(page) ==
    IF page.priceEl.present THEN ParseRupees(page.priceEl)
    ELSE IF page.offscreenPrice.present THEN ParseRupees(page.offscreenPrice)
    ELSE Null

AmazonMrp(page) == IF page.mrpEl.present THEN ParseRupees(page.mrpEl) ELSE Null

FlipkartPrice(page) ==
    IF page.priceEl.present THEN ParseFlipkartRupees(page.priceEl) ELSE Null

FlipkartMrp(page) ==
    IF page.mrpEl.present THEN ParseFlipkartRupees(page.mrpEl) ELSE Null

MyntraPrice(page) == IF page.priceEl.present THEN ParseRupees(page.priceEl) ELSE Null

MyntraMrp(page) == IF page.mrpEl.present THEN ParseRupees(page.mrpEl) ELSE Null

\* parseInt of the badge text without its "-", "%" (and " off")
ParseBadge(el) == IF el.junk THEN NaN ELSE Num(el.n)

\* if (result.price && result.mrp) computed, else the badge when present
ComputedDiscount(price, mrp, badge) ==
    IF Truthy(price) /\ Truthy(mrp) THEN Num(RoundPercent(price.v, mrp.v))
    ELSE IF badge.present THEN ParseBadge(badge)
    ELSE Null

AmazonDiscount(page) ==
    ComputedDiscount(AmazonPrice(page), AmazonMrp(page), page.discountEl)

FlipkartDiscount(page) ==
    ComputedDiscount(FlipkartPrice(page), FlipkartMrp(page), page.discountEl)

\* Myntra: the digits of the .pdp-discount badge, whatever price and mrp are
MyntraDiscount(page) ==
    IF page.discountEl.present /\ ~page.discountEl.junk
    THEN Num(page.discountEl.n) ELSE Null

\* Amazon / Flipkart rating: the first run of [\d.] in the text, or null
MatchedRating(page) ==
    IF page.ratingEl.present /\ ~page.ratingEl.junk THEN Num(page.ratingEl.n) ELSE Null

\* Myntra rating: parseFloat of the whole text
MyntraRating(page) ==
    IF ~page.ratingEl.present THEN Null
    ELSE IF page.ratingEl.junk THEN NaN ELSE Num(page.ratingEl.n)

\* Amazon: replace(/[,\s]/g, '').match(/\d+/): the first run of digits
AmazonTotalRatings(page) ==
    IF page.countEl.present /\ ~page.countEl.junk THEN Num(page.countEl.int) ELSE Null

\* Flipkart: match(/([\d,]+)\s*Ratings/): the digits that touch "Ratings"
FlipkartTotalRatings(page) ==
    LET el == page.countEl
    IN  IF ~el.present \/ el.junk \/ el.k THEN Null
        ELSE IF el.frac >= 0 THEN Num(el.frac) ELSE Num(el.int)

\* Myntra: replace(/[,\sk]/gi, '').match(/[\d.]+/), then
\* count.includes('.') ? parseFloat(count) * 1000 : parseInt(count)
MyntraTotalRatings(page) ==
    LET el == page.countEl
    IN  IF ~el.present \/ el.junk THEN Null
        ELSE IF el.frac >= 0 THEN Num(el.int * 1000 + el.frac * 100)
        ELSE Num(el.int)

\* a seller that falls back to the sentinel inside the raw record
SellerOrSentinel(page) ==
    IF page.sellerEl.present THEN Str(page.sellerEl.text) ELSE Str("Not specified")

\* sellerEl ? sellerEl.textContent.trim() : null
SellerOf(page) == IF page.sellerEl.present THEN Str(page.sellerEl.text) ELSE Null

AmazonAvailability(page) ==
    IF page.availEl.present THEN Str(page.availEl.text) ELSE Null

\* Flipkart: an availability element decides between "Out of Stock" and
\* "In Stock"; without one, the add-to-cart button decides between
\* "In Stock" and "Check availability"
FlipkartAvailability(page) ==
    IF page.availEl.present
    THEN IF page.availEl.text = "Add to cart" /\ page.availEl.disabled
         THEN Str("Out of Stock") ELSE Str("In Stock")
    ELSE IF page.cartBtn THEN Str("In Stock") ELSE Str("Check availability")

FlipkartDelivery(page) ==
    IF page.deliveryEl.present THEN Str(page.deliveryEl.text) ELSE Null

\* the record each extractProductDetails returns; a key the platform's
\* record does not have reads as undefined
AmazonDetails(page) ==
    [ price |-> AmazonPrice(page), mrp |-> AmazonMrp(page),
      discount |-> AmazonDiscount(page), rating |-> MatchedRating(page),
      totalRatings |-> AmazonTotalRatings(page), offers |-> AmazonOffers(page),
      seller |-> SellerOf(page), availability |-> AmazonAvailability(page),
      delivery |-> Undefined, productLink |-> <<>> ]

FlipkartDetails(page) ==
    [ price |-> FlipkartPrice(page), mrp |-> FlipkartMrp(page),
      discount |-> FlipkartDiscount(page), rating |-> MatchedRating(page),
      totalRatings |-> FlipkartTotalRatings(page), offers |-> FlipkartOffers(page),
      seller |-> SellerOf(page), availability |-> FlipkartAvailability(page),
      delivery |-> FlipkartDelivery(page), productLink |-> <<>> ]

MyntraDetails(page) ==
    [ price |-> MyntraPrice(page), mrp |-> MyntraMrp(page),
      discount |-> MyntraDiscount(page), rating |-> MyntraRating(page),
      totalRatings |-> MyntraTotalRatings(page), offers |-> MyntraOffers(page),
      seller |-> SellerOf(page), availability |-> Undefined,
      delivery |-> Undefined, productLink |-> <<>> ]

extractProductDetails(p, page) ==
    CASE p = "amazon"   -> AmazonDetails(page)
      [] p = "flipkart" -> FlipkartDetails(page)
      [] p = "myntra"   -> MyntraDetails(page)

-----------------------------------------------------------------------------
(* The controller functions: the envelope.                                 *)

\* `₹${n.toLocaleString('en-IN')}` and `${n}%`: strings that carry n
Rupees(n) == [t |-> "str", v |-> n, s |-> "Rs"]
Percent(n) == [t |-> "str", v |-> n, s |-> "%"]

FormatPrice(x) == IF Truthy(x) THEN Rupees(x.v) ELSE Str("Not available")
FormatMrp(x) == IF Truthy(x) THEN Rupees(x.v) ELSE Null
FormatDiscount(x) == IF Truthy(x) THEN Percent(x.v) ELSE Null
FormatOffers(offers) == IF Len(offers) > 0 THEN offers ELSE << <<"No offers available">> >>
FormatSeller(x) == IF Truthy(x) THEN x ELSE Str("Not specified")

\* the data of the success envelope; a key the platform's envelope does not
\* have reads as undefined (productLink: the empty URL)
AmazonData(d) ==
    [ price |-> FormatPrice(d.price), mrp |-> FormatMrp(d.mrp),
      discount |-> FormatDiscount(d.discount), stars |-> d.rating,
      totalReviews |-> d.totalRatings, topOffers |-> FormatOffers(d.offers),
      seller |-> FormatSeller(d.seller), availability |-> d.availability,
      delivery |-> Undefined, productLink |-> d.productLink ]

FlipkartData(d) ==
    [ price |-> FormatPrice(d.price), mrp |-> FormatMrp(d.mrp),
      discount |-> FormatDiscount(d.discount), stars |-> d.rating,
      totalReviews |-> d.totalRatings, topOffers |-> FormatOffers(d.offers),
      seller |-> FormatSeller(d.seller), availability |-> d.availability,
      delivery |-> d.delivery, productLink |-> d.productLink ]

MyntraData(d) ==
    [ price |-> FormatPrice(d.price), mrp |-> FormatMrp(d.mrp),
      discount |-> FormatDiscount(d.discount), stars |-> d.rating,
      totalReviews |-> d.totalRatings, topOffers |-> FormatOffers(d.offers),
      seller |-> FormatSeller(d.seller), availability |-> Undefined,
      delivery |-> Undefined, productLink |-> <<>> ]

NoData ==
    [ price |-> Undefined, mrp |-> Undefined, discount |-> Undefined,
      stars |-> Undefined, totalReviews |-> Undefined, topOffers |-> <<>>,
      seller |-> Undefined, availability |-> Undefined, delivery |-> Undefined,
      productLink |-> <<>> ]

\* return { success: true, data: {...} }
SuccessEnvelope(p, d) ==
    [ returned |-> TRUE, success |-> TRUE, error |-> "",
      data |-> CASE p = "amazon"   -> AmazonData(d)
                 [] p = "flipkart" -> FlipkartData(d)
                 [] p = "myntra"   -> MyntraData(d) ]

\* return { success: false, error: error.message }
FailureEnvelope(message) ==
    [ returned |-> TRUE, success |-> FALSE, error |-> message, data |-> NoData ]

\* nothing returned yet
NoOutput == [ returned |-> FALSE, success |-> FALSE, error |-> "", data |-> NoData ]

-----------------------------------------------------------------------------
(* Product pages.                                                          *)

\* a page that holds none of the optional elements
BlankPage ==
    [ priceEl |-> NoEl, offscreenPrice |-> NoEl, mrpEl |-> NoEl,
      discountEl |-> NoEl, ratingEl |-> NoEl, countEl |-> NoCount,
      offers1 |-> <<>>, offers2 |-> <<>>, offers3 |-> <<>>,
      sellerEl |-> NoText, availEl |-> NoText, cartBtn |-> FALSE,
      deliveryEl |-> NoText ]

NoDetails ==
    [ price |-> Undefined, mrp |-> Undefined, discount |-> Undefined,
      rating |-> Undefined, totalRatings |-> Undefined, offers |-> <<>>,
      seller |-> Undefined, availability |-> Undefined, delivery |-> Undefined,
      productLink |-> <<>> ]

\* the texts of a price or mrp element
PriceEls ==
    {NoEl, JunkEl} \cup {NumEl(sym, n) : sym \in BOOLEAN, n \in 0..MaxPrice}

\* the texts of a discount badge
BadgeEls == {NoEl, JunkEl, NumEl(FALSE, 0), NumEl(FALSE, 50)}

\* pages that differ in price, mrp and badge
DiscountPages(p) ==
    { [BlankPage EXCEPT !.priceEl = pr, !.mrpEl = mr, !.discountEl = bd,
                        !.offscreenPrice = os] :
        pr \in PriceEls, mr \in PriceEls, bd \in BadgeEls,
        os \in IF p = "amazon" THEN {NoEl, NumEl(TRUE, 2)} ELSE {NoEl} }

\* the offer elements of the single-group platforms
OfferEls(p) ==
    IF p = "myntra"
    THEN {OfferEl(t, TRUE) : t \in {OfferA, OfferAPadded, OfferB, OfferC, OfferShort}}
         \cup {OfferEl(OfferC, FALSE)}
    ELSE {OfferEl(t, TRUE) :
             t \in {OfferA, OfferAPadded, OfferB, OfferBTerms, OfferC, OfferShort}}

\* the offer elements of Amazon's three selector groups: badges, coupons
\* and bank offers
BadgeGroupEls == {OfferEl(t, TRUE) : t \in {OfferA, OfferShort}}
CouponGroupEls == {OfferEl(t, TRUE) : t \in {OfferA, OfferB, OfferC}}
BankGroupEls == {OfferEl(t, TRUE) : t \in {OfferA, OfferB}}

\* pages that differ in their offer elements
OfferPages(p) ==
    IF p = "amazon"
    THEN { [BlankPage EXCEPT !.offers1 = g1, !.offers2 = g2, !.offers3 = g3] :
             g1 \in SeqsUpTo(BadgeGroupEls, MaxGroupEls),
             g2 \in SeqsUpTo(CouponGroupEls, MaxGroupEls),
             g3 \in SeqsUpTo(BankGroupEls, MaxGroupEls) }
    ELSE { [BlankPage EXCEPT !.offers1 = g1] :
             g1 \in SeqsUpTo(OfferEls(p), MaxOfferEls) }

\* the texts of a rating-count element: none, no digits, "2k", "1.2k", "1,234"
CountEls ==
    {NoCount, JunkCount, CountEl(2, -1, TRUE), CountEl(1, 2, TRUE),
     CountEl(1234, -1, FALSE)}

\* pages that differ in their rating-count element
CountPages == { [BlankPage EXCEPT !.countEl = co] : co \in CountEls }

ExtractPages(p) == DiscountPages(p) \cup OfferPages(p) \cup CountPages

-----------------------------------------------------------------------------
(* The routes: what a handler sends.                                       *)

\* nothing sent yet
NoResponse == [sent |-> FALSE, status |-> 0, body |-> <<>>]

\* req.body.productName (req.query.productName on Myntra's GET route): not
\* given, given but not a string, or a string
Requests == { [productName |-> k] : k \in {"absent", "nonString", "string"} }

\* if (!productName || typeof productName !== "string")   (Amazon, Flipkart)
\* if (!productName)                                       (Myntra)
RejectsRequest(p, req) ==
    IF p = "myntra" THEN req.productName = "absent"
    ELSE req.productName \in {"absent", "nonString"}

\* the values process.env.NODE_ENV may have (unset included)
NodeEnvs == {"development", "production", "test", "unset"}

\* a body the handler builds itself; a key it does not give is ""
OwnBody(success, plat, message, details) ==
    [ relayed |-> FALSE, envelope |-> NoOutput, success |-> success,
      platform |-> plat, error |-> message, details |-> details ]

\* res.json(result): the controller's envelope as the body
RelayBody(result) ==
    [ relayed |-> TRUE, envelope |-> result, success |-> "",
      platform |-> "", error |-> "", details |-> "" ]

\* res.status(400).json({...})
BadRequest(p) ==
    [ sent |-> TRUE, status |-> 400,
      body |-> IF p = "myntra"
               THEN OwnBody("false", "", "Product name is required", "")
               ELSE OwnBody("", "", "productName is required", "") ]

\* return res.json(result) / res.status(200).json(result)
Relayed(result) == [ sent |-> TRUE, status |-> 200, body |-> RelayBody(result) ]

\* the handler's catch: res.status(500).json({...}); on Myntra details is
\* error.stack in development mode and undefined, hence left out, otherwise
ServerError(p, message, env) ==
    [ sent |-> TRUE, status |-> 500,
      body |-> IF p = "myntra"
               THEN OwnBody("false", "Myntra", message,
                            IF env = "development" THEN "stack" ELSE "")
               ELSE OwnBody("false", "", "Internal server error", "") ]

-----------------------------------------------------------------------------
(* The in-page functions on their own: page.evaluate applied to a page.    *)

\* the state of a call that has not started, on platform p
Fresh(p) ==
    /\ platform = p
    /\ browser = "none"
    /\ listing = <<>>
    /\ product = BlankPage
    /\ firstProductUrl = NoUrl
    /\ navigatedTo = <<>>
    /\ productDetails = NoDetails
    /\ error = ""
    /\ output = NoOutput
    /\ log = <<>>
    /\ response = NoResponse
    /\ nodeEnv = "unread"
    /\ nav = "idle"
    /\ calls = <<>>
    /\ sessions = <<>>

\* a rendered results page, before findFirstNonSponsoredProduct runs on it
InitFilter ==
    \E p \in Platforms :
        /\ platform = p
        /\ pc = "resultsPage"
        /\ browser = "open"
        /\ listing \in Listings(p, MaxCands)
        /\ product = BlankPage
        /\ firstProductUrl = NoUrl
        /\ navigatedTo = <<>>
        /\ productDetails = NoDetails
        /\ error = ""
        /\ output = NoOutput
        /\ log = <<>>
        /\ request = [productName |-> "string"]
        /\ response = NoResponse
        /\ nodeEnv = "unread"
        /\ nav = "idle"
        /\ calls = <<>>
        /\ sessions = <<>>

\* const productUrl = await page.evaluate(() => { ... })
FindOnPage ==
    /\ pc = "resultsPage"
    /\ firstProductUrl' = findFirstNonSponsoredProduct(platform, listing)
    /\ pc' = "found"
    /\ UNCHANGED <<request, response, nodeEnv, nav, calls, sessions>>
    /\ UNCHANGED <<platform, browser, listing, product, navigatedTo,
                   productDetails, error, output, log>>

NextFilter == FindOnPage

SpecFilter == InitFilter /\ [][NextFilter]_vars

\* a rendered product page, before extractProductDetails runs on it
InitExtract ==
    \E p \in Platforms :
        /\ platform = p
        /\ pc = "productPage"
        /\ browser = "open"
        /\ listing = <<>>
        /\ product \in ExtractPages(p)
        /\ firstProductUrl = NoUrl
        /\ navigatedTo = <<>>
        /\ productDetails = NoDetails
        /\ error = ""
        /\ output = NoOutput
        /\ log = <<>>
        /\ request = [productName |-> "string"]
        /\ response = NoResponse
        /\ nodeEnv = "unread"
        /\ nav = "idle"
        /\ calls = <<>>
        /\ sessions = <<>>

\* const details = await page.evaluate(() => { ... })
ExtractOnPage ==
    /\ pc = "productPage"
    /\ productDetails' = extractProductDetails(platform, product)
    /\ pc' = "extracted"
    /\ UNCHANGED <<request, response, nodeEnv, nav, calls, sessions>>
    /\ UNCHANGED <<platform, browser, listing, product, firstProductUrl,
                   navigatedTo, error, output, log>>

\* the controller's const output = { success: true, data: {...} }
FormatRecord ==
    /\ pc = "extracted"
    /\ output' = SuccessEnvelope(platform, productDetails)
    /\ pc' = "formatted"
    /\ UNCHANGED <<request, response, nodeEnv, nav, calls, sessions>>
    /\ UNCHANGED <<platform, browser, listing, product, firstProductUrl,
                   navigatedTo, productDetails, error, log>>

NextExtract == ExtractOnPage \/ FormatRecord

SpecExtract == InitExtract /\ [][NextExtract]_vars

-----------------------------------------------------------------------------
(* scrapeProduct and the controller function: one call.                    *)

\* the product pages a call may land on: every optional element is either
\* absent or present with a sample text
PipelinePages(p) ==
    { [ priceEl |-> pr, offscreenPrice |-> NoEl, mrpEl |-> mr,
        discountEl |-> bd, ratingEl |-> ra, countEl |-> co,
        offers1 |-> of, offers2 |-> <<>>, offers3 |-> <<>>,
        sellerEl |-> se, availEl |-> av, cartBtn |-> cb, deliveryEl |-> de ] :
        pr \in {NoEl, NumEl(TRUE, 3)},
        mr \in {NoEl, NumEl(TRUE, 4)},
        bd \in {NoEl, NumEl(FALSE, 50)},
        ra \in {NoEl, NumEl(FALSE, 4)},
        co \in {NoCount, CountEl(2, -1, TRUE)},
        of \in {<<>>, <<OfferEl(OfferA, TRUE)>>},
        se \in {NoText, TextEl("RetailNet", FALSE)},
        av \in CASE p = "amazon"   -> {NoText, TextEl("In stock", FALSE)}
                 [] p = "flipkart" -> {NoText, TextEl("Add to cart", TRUE)}
                 [] p = "myntra"   -> {NoText},
        cb \in IF p = "flipkart" THEN BOOLEAN ELSE {FALSE},
        de \in IF p = "flipkart" THEN {NoText, TextEl("Delivery by Mon", FALSE)}
                                 ELSE {NoText} }

\* the statements of scrapeProduct's try block, in order
Pipeline(p) ==
    IF p = "myntra"
    THEN << "newPage", "setViewport", "setUserAgent", "gotoHome", "settleHome",
            "waitSearchBar", "click", "type", "settleSuggest", "pressEnter",
            "waitForNavigation", "waitResults", "settleResults", "findFirst",
            "checkUrl", "gotoProduct", "waitTitle", "settleProduct", "extract" >>
    ELSE << "newPage", "setViewport", "setUserAgent", "gotoSearch",
            "waitResults", "settleResults", "findFirst", "checkUrl",
            "gotoProduct", "waitTitle", "settleProduct", "extract" >>

\* the position of a statement in the try block
IndexOf(p, step) == CHOOSE i \in 1..Len(Pipeline(p)) : Pipeline(p)[i] = step

\* where control goes when a statement of the try block completes: the next
\* statement, or the finally block after the return
After(p, step) ==
    IF IndexOf(p, step) = Len(Pipeline(p)) THEN "finally"
    ELSE Pipeline(p)[IndexOf(p, step) + 1]

\* a failure handler that starts the call over
RetryFromStart == "start"

\* where control goes when a statement of the try block throws
OnThrow == "catch"

\* a catch block whose rethrow leaves scrapeProduct at once
AfterCatchSkipsFinally == "controllerCatch"

\* where control goes from scrapeProduct's catch block, which rethrows
AfterCatch == "finally"

\* a launch error that no controller catches: the call rejects
LaunchThrowEscapes == "rejected"

\* where control goes when puppeteer.launch, outside the try, throws
OnLaunchThrow == "controllerCatch"

\* new Error('No non-sponsored products found')
NoOrganic == "No non-sponsored products found"

\* the message of the error a failing step throws
Message(step) ==
    IF step = "checkUrl" THEN NoOrganic
    ELSE "failed: " \o step

\* a check that lets every lookup result through
UrlNeverMissing(url) == FALSE

\* if (!firstProductUrl)
UrlMissing(url) == url = NoUrl

\* productDetails.productLink = productLink (Amazon and Flipkart only)
WithProductLink(p, d, link) ==
    IF p \in {"amazon", "flipkart"} THEN [d EXCEPT !.productLink = link] ELSE d

Ran(step, ok) == Append(log, [step |-> step, ok |-> ok])

Init ==
    /\ \E p \in Platforms : Fresh(p)
    /\ request \in Requests
    /\ pc = "route"

\* the handler's validation of the request; a valid one calls the controller
RouteValidate ==
    /\ pc = "route"
    /\ IF RejectsRequest(platform, request)
       THEN /\ response' = BadRequest(platform)
            /\ pc' = "responded"
       ELSE /\ pc' = "start"
            /\ UNCHANGED response
    /\ UNCHANGED <<request, nodeEnv, nav, calls, sessions>>
    /\ UNCHANGED <<platform, browser, listing, product, firstProductUrl,
                   navigatedTo, productDetails, error, output, log>>

\* the handler after the awaited controller settled: it relays the value
\* the controller returned, or answers from its catch block when the
\* controller rejected; NODE_ENV is read there
RouteRespond ==
    /\ pc \in {"done", "rejected"}
    /\ nodeEnv' \in IF pc = "done" THEN {nodeEnv} ELSE NodeEnvs
    /\ response' = IF pc = "done" THEN Relayed(output)
                   ELSE ServerError(platform, error, nodeEnv')
    /\ pc' = "responded"
    /\ UNCHANGED <<request, nav, calls, sessions>>
    /\ UNCHANGED <<platform, browser, listing, product, firstProductUrl,
                   navigatedTo, productDetails, error, output, log>>

\* const browser = await puppeteer.launch({...})
Launch ==
    /\ pc = "start"
    /\ \/ /\ browser' = "open"
          /\ pc' = "newPage"
          /\ log' = Ran("launch", TRUE)
          /\ UNCHANGED error
       \/ /\ error' = Message("launch")
          /\ pc' = OnLaunchThrow
          /\ log' = Ran("launch", FALSE)
          /\ UNCHANGED browser
    /\ UNCHANGED <<request, response, nodeEnv, nav, calls, sessions>>
    /\ UNCHANGED <<platform, listing, product, firstProductUrl, navigatedTo,
                   productDetails, output>>

\* the awaited page calls that change nothing the scraper reads:
\* newPage, setViewport, setUserAgent, and on Myntra goto(home),
\* waitForSelector(search bar), click, type
PlainSteps ==
    {"newPage", "setViewport", "setUserAgent", "gotoHome", "waitSearchBar",
     "click", "type"}

PlainStep ==
    /\ pc \in PlainSteps
    /\ \/ /\ pc' = After(platform, pc)
          /\ log' = Ran(pc, TRUE)
          /\ UNCHANGED error
       \/ /\ error' = Message(pc)
          /\ pc' = OnThrow
          /\ log' = Ran(pc, FALSE)
    /\ UNCHANGED <<request, response, nodeEnv, nav, calls, sessions>>
    /\ UNCHANGED <<platform, browser, listing, product, firstProductUrl,
                   navigatedTo, productDetails, output>>

\* await new Promise(resolve => setTimeout(resolve, ms)) where the page is
\* not read afterwards for its listing
Delay ==
    /\ pc \in {"settleHome", "settleSuggest", "settleProduct"}
    /\ pc' = After(platform, pc)
    /\ log' = Ran(pc, TRUE)
    /\ UNCHANGED <<request, response, nodeEnv, nav, calls, sessions>>
    /\ UNCHANGED <<platform, browser, listing, product, firstProductUrl,
                   navigatedTo, productDetails, error, output>>

\* await page.keyboard.press('Enter'): when the press resolves, the page has
\* begun to navigate to the results
PressEnter ==
    /\ pc = "pressEnter"
    /\ \/ /\ nav' = "loading"
          /\ pc' = After(platform, pc)
          /\ log' = Ran(pc, TRUE)
          /\ UNCHANGED error
       \/ /\ error' = Message(pc)
          /\ pc' = OnThrow
          /\ log' = Ran(pc, FALSE)
          /\ UNCHANGED nav
    /\ UNCHANGED <<request, response, nodeEnv, calls, sessions>>
    /\ UNCHANGED <<platform, browser, listing, product, firstProductUrl,
                   navigatedTo, productDetails, output>>

\* the browser finishes the navigation after the press resolved and before
\* page.waitForNavigation has been called
NavigationCompletesEarly ==
    /\ pc = "waitForNavigation"
    /\ nav = "loading"
    /\ nav' = "loaded"
    /\ listing' \in Listings(platform, MaxListing)
    /\ UNCHANGED <<request, response, nodeEnv, calls, sessions>>
    /\ UNCHANGED <<platform, pc, browser, product, firstProductUrl,
                   navigatedTo, productDetails, error, output, log>>

\* await page.waitForNavigation({ waitUntil: 'networkidle2', timeout: 60000 }):
\* it resolves on a navigation that completes after the call, and times out
\* when none does
WaitForNavigation ==
    /\ pc = "waitForNavigation"
    /\ \/ /\ nav = "loading"
          /\ nav' = "loaded"
          /\ listing' \in Listings(platform, MaxListing)
          /\ pc' = After(platform, pc)
          /\ log' = Ran(pc, TRUE)
          /\ UNCHANGED error
       \/ /\ error' = Message(pc)
          /\ pc' = OnThrow
          /\ log' = Ran(pc, FALSE)
          /\ UNCHANGED <<listing, nav>>
    /\ UNCHANGED <<request, response, nodeEnv, calls, sessions>>
    /\ UNCHANGED <<platform, browser, product, firstProductUrl, navigatedTo,
                   productDetails, output>>

\* await page.goto(searchUrl, {...}): the navigation that loads the results
\* page on Amazon and Flipkart
LoadResults ==
    /\ pc = "gotoSearch"
    /\ \/ /\ listing' \in Listings(platform, MaxListing)
          /\ pc' = After(platform, pc)
          /\ log' = Ran(pc, TRUE)
          /\ UNCHANGED error
       \/ /\ error' = Message(pc)
          /\ pc' = OnThrow
          /\ log' = Ran(pc, FALSE)
          /\ UNCHANGED listing
    /\ UNCHANGED <<request, response, nodeEnv, nav, calls, sessions>>
    /\ UNCHANGED <<platform, browser, product, firstProductUrl, navigatedTo,
                   productDetails, output>>

\* whether the awaited results selector can match: Amazon and Myntra wait
\* for the very selector the scan reads; Flipkart waits for three of the
\* five container classes the scan reads, so a page with candidates may
\* still hold none of the awaited ones
ResultsCanAppear(p, cands) == cands # <<>>
ResultsCanBeMissing(p, cands) == cands = <<>> \/ p = "flipkart"

\* await page.waitForSelector(resultsSelector, { timeout: 30000 })
WaitResults ==
    /\ pc = "waitResults"
    /\ \/ /\ ResultsCanAppear(platform, listing)
          /\ pc' = After(platform, pc)
          /\ log' = Ran(pc, TRUE)
          /\ UNCHANGED error
       \/ /\ ResultsCanBeMissing(platform, listing)
          /\ error' = Message(pc)
          /\ pc' = OnThrow
          /\ log' = Ran(pc, FALSE)
    /\ UNCHANGED <<request, response, nodeEnv, nav, calls, sessions>>
    /\ UNCHANGED <<platform, browser, listing, product, firstProductUrl,
                   navigatedTo, productDetails, output>>

\* what a rendered listing may have become when the settle delay is over:
\* itself, itself with one more candidate, or an empty listing
Rerendered(p, cands) ==
    {cands, <<>>}
    \cup { Append(cands, Candidate(p, k[1], k[2], Len(cands) + 1)) :
              k \in IF Len(cands) < MaxListing THEN CandKinds ELSE {} }

\* the settle delay after the results selector resolved, during which the
\* page may go on rendering
SettleResults ==
    /\ pc = "settleResults"
    /\ listing' \in Rerendered(platform, listing)
    /\ pc' = After(platform, pc)
    /\ log' = Ran(pc, TRUE)
    /\ UNCHANGED <<request, response, nodeEnv, nav, calls, sessions>>
    /\ UNCHANGED <<platform, browser, product, firstProductUrl, navigatedTo,
                   productDetails, error, output>>

\* const firstProductUrl = await this.findFirstNonSponsoredProduct(page)
FindFirst ==
    /\ pc = "findFirst"
    /\ \/ /\ firstProductUrl' = findFirstNonSponsoredProduct(platform, listing)
          /\ pc' = After(platform, pc)
          /\ log' = Ran(pc, TRUE)
          /\ UNCHANGED error
       \/ /\ error' = Message(pc)
          /\ pc' = OnThrow
          /\ log' = Ran(pc, FALSE)
          /\ UNCHANGED firstProductUrl
    /\ UNCHANGED <<request, response, nodeEnv, nav, calls, sessions>>
    /\ UNCHANGED <<platform, browser, listing, product, navigatedTo,
                   productDetails, output>>

\* if (!firstProductUrl) throw new Error('No non-sponsored products found')
CheckUrl ==
    /\ pc = "checkUrl"
    /\ IF UrlMissing(firstProductUrl)
       THEN /\ error' = Message(pc)
            /\ pc' = OnThrow
            /\ log' = Ran(pc, FALSE)
       ELSE /\ pc' = After(platform, pc)
            /\ log' = Ran(pc, TRUE)
            /\ UNCHANGED error
    /\ UNCHANGED <<request, response, nodeEnv, nav, calls, sessions>>
    /\ UNCHANGED <<platform, browser, listing, product, firstProductUrl,
                   navigatedTo, productDetails, output>>

\* await page.goto(firstProductUrl, {...}): on success the results page is
\* gone
GotoProduct ==
    /\ pc = "gotoProduct"
    /\ navigatedTo' = firstProductUrl
    /\ \/ /\ listing' = <<>>
          /\ pc' = After(platform, pc)
          /\ log' = Ran(pc, TRUE)
          /\ UNCHANGED error
       \/ /\ error' = Message(pc)
          /\ pc' = OnThrow
          /\ log' = Ran(pc, FALSE)
          /\ UNCHANGED listing
    /\ UNCHANGED <<request, response, nodeEnv, nav, calls, sessions>>
    /\ UNCHANGED <<platform, browser, product, firstProductUrl,
                   productDetails, output>>

\* await page.waitForSelector(titleSelector, { timeout: 30000 }): the product
\* page renders with its title element, or the wait times out
WaitTitle ==
    /\ pc = "waitTitle"
    /\ \/ /\ product' \in PipelinePages(platform)
          /\ pc' = After(platform, pc)
          /\ log' = Ran(pc, TRUE)
          /\ UNCHANGED error
       \/ /\ error' = Message(pc)
          /\ pc' = OnThrow
          /\ log' = Ran(pc, FALSE)
          /\ UNCHANGED product
    /\ UNCHANGED <<request, response, nodeEnv, nav, calls, sessions>>
    /\ UNCHANGED <<platform, browser, listing, firstProductUrl,
                   navigatedTo, productDetails, output>>

\* const productDetails = await this.extractProductDetails(page);
\* productDetails.productLink = productLink; return productDetails
Extract ==
    /\ pc = "extract"
    /\ \/ /\ productDetails' =
                WithProductLink(platform,
                                extractProductDetails(platform, product),
                                firstProductUrl)
          /\ pc' = After(platform, pc)
          /\ log' = Ran(pc, TRUE)
          /\ UNCHANGED error
       \/ /\ error' = Message(pc)
          /\ pc' = OnThrow
          /\ log' = Ran(pc, FALSE)
          /\ UNCHANGED productDetails
    /\ UNCHANGED <<request, response, nodeEnv, nav, calls, sessions>>
    /\ UNCHANGED <<platform, browser, listing, product, firstProductUrl,
                   navigatedTo, output>>

\* catch (error) { console.error(...); throw error; }
Catch ==
    /\ pc = "catch"
    /\ pc' = AfterCatch
    /\ log' = Ran("catch", TRUE)
    /\ UNCHANGED <<request, response, nodeEnv, nav, calls, sessions>>
    /\ UNCHANGED <<platform, browser, listing, product, firstProductUrl,
                   navigatedTo, productDetails, error, output>>

\* finally { await browser.close(); }: browser = "closed" says that close()
\* was called on it.  When close() rejects, its error replaces the one in
\* flight, or turns the return into a throw
Finally ==
    /\ pc = "finally"
    /\ browser' = "closed"
    /\ \/ /\ pc' = IF error # "" THEN "controllerCatch" ELSE "format"
          /\ log' = Ran("close", TRUE)
          /\ UNCHANGED error
       \/ /\ error' = Message("close")
          /\ pc' = "controllerCatch"
          /\ log' = Ran("close", FALSE)
    /\ UNCHANGED <<request, response, nodeEnv, nav, calls, sessions>>
    /\ UNCHANGED <<platform, listing, product, firstProductUrl, navigatedTo,
                   productDetails, output>>

\* the controller's try block after scrapeProduct resolved:
\* const output = { success: true, data: {...} }; return output
Format ==
    /\ pc = "format"
    /\ output' = SuccessEnvelope(platform, productDetails)
    /\ pc' = "done"
    /\ log' = Ran("format", TRUE)
    /\ UNCHANGED <<request, response, nodeEnv, nav, calls, sessions>>
    /\ UNCHANGED <<platform, browser, listing, product, firstProductUrl,
                   navigatedTo, productDetails, error>>

\* the controller's catch (error) { return { success: false, error: error.message } }
ControllerCatch ==
    /\ pc = "controllerCatch"
    /\ output' = FailureEnvelope(error)
    /\ pc' = "done"
    /\ log' = Ran("controllerCatch", TRUE)
    /\ UNCHANGED <<request, response, nodeEnv, nav, calls, sessions>>
    /\ UNCHANGED <<platform, browser, listing, product, firstProductUrl,
                   navigatedTo, productDetails, error>>

Next ==
    \/ Launch
    \/ PlainStep
    \/ Delay
    \/ PressEnter
    \/ NavigationCompletesEarly
    \/ WaitForNavigation
    \/ LoadResults
    \/ WaitResults
    \/ SettleResults
    \/ FindFirst
    \/ CheckUrl
    \/ GotoProduct
    \/ WaitTitle
    \/ Extract
    \/ Catch
    \/ Finally
    \/ Format
    \/ ControllerCatch
    \/ RouteValidate
    \/ RouteRespond

Spec == Init /\ [][Next]_vars

\* the awaited steps that the code itself bounds: page.goto and
\* page.waitForNavigation with timeout: 60000, page.waitForSelector with
\* timeout: 30000, and the setTimeout delays
TimedStep ==
    \/ pc \in {"gotoHome", "waitSearchBar"} /\ PlainStep
    \/ Delay
    \/ WaitForNavigation
    \/ LoadResults
    \/ WaitResults
    \/ SettleResults
    \/ GotoProduct
    \/ WaitTitle

\* the steps that run without suspending: the URL check, the catch blocks,
\* the building of the envelope, the handler's validation and response
SyncStep ==
    \/ CheckUrl
    \/ Catch
    \/ Format
    \/ ControllerCatch
    \/ RouteValidate
    \/ RouteRespond

\* the call under the progress the code guarantees: a timed wait ends at its
\* timeout at the latest and synchronous code runs on; puppeteer.launch,
\* newPage, setViewport, setUserAgent, click, type, keyboard.press,
\* page.evaluate and browser.close are awaited with no timeout of the code's
SpecLive == Init /\ [][Next]_vars /\ WF_vars(TimedStep) /\ WF_vars(SyncStep)

-----------------------------------------------------------------------------
(* A route handler on its own: the awaited controller is its environment.  *)

\* the messages of the errors a rejecting call may carry
RejectionMessages == {Message("launch"), Message("close"), NoOrganic}

\* the values a resolving call may carry
Envelopes(p) ==
    { SuccessEnvelope(p, extractProductDetails(p, pg)) : pg \in PipelinePages(p) }
    \cup { FailureEnvelope(msg) : msg \in RejectionMessages }

\* const result = await scraper(productName): the call resolves with an
\* envelope or rejects with an error
AwaitScraper ==
    /\ pc = "start"
    /\ \/ /\ output' \in Envelopes(platform)
          /\ pc' = "done"
          /\ UNCHANGED error
       \/ /\ error' \in RejectionMessages
          /\ pc' = "rejected"
          /\ UNCHANGED output
    /\ UNCHANGED <<request, response, nodeEnv, nav, calls, sessions>>
    /\ UNCHANGED <<platform, browser, listing, product, firstProductUrl,
                   navigatedTo, productDetails, log>>

NextRoute == RouteValidate \/ AwaitScraper \/ RouteRespond

SpecRoute == Init /\ [][NextRoute]_vars

-----------------------------------------------------------------------------
(* Concurrent calls: the server takes a request while others are awaited.  *)

\* the calls that may be in flight together
Calls == 1..MaxCalls

\* the phases of scrapeProduct's try block that act on the page, in order,
\* after browser.newPage(): set-up and search, the scan of the results, the
\* product page's navigation and extraction
PageSteps == <<"search", "findFirst", "product">>

\* a call that has not arrived
IdleCall == [ pc |-> "idle", platform |-> "", browser |-> 0, page |-> 0,
              at |-> 0, threw |-> FALSE ]

\* the browser process puppeteer.launch started for call c, with the history
\* of the calls that acted on it
NewSession(c) == [ open |-> TRUE, launchedBy |-> c, pages |-> 0,
                   usedBy |-> {}, closedBy |-> {} ]

\* the browser variable most recently assigned by any call
LatestBrowser(c) == Len(sessions)

\* const browser: the local variable of call c's scrapeProduct
BrowserOf(c) == calls[c].browser

\* a call is in flight from the handler's invocation until it returns
InFlight(c) == calls[c].pc \notin {"idle", "returned"}

\* the part of the state concurrent calls do not touch
OneCallIdle ==
    UNCHANGED <<platform, pc, browser, listing, product, firstProductUrl,
                navigatedTo, productDetails, error, output, log,
                request, response, nodeEnv, nav>>

\* a request arrives and its handler calls the controller
CallArrives(c) ==
    /\ calls[c].pc = "idle"
    /\ \E p \in Platforms :
           calls' = [calls EXCEPT ![c] = [@ EXCEPT !.pc = "launch", !.platform = p]]
    /\ UNCHANGED sessions
    /\ OneCallIdle

\* const browser = await puppeteer.launch({...}); a rejection leaves
\* scrapeProduct before its try and ends in the controller's catch
CallLaunch(c) ==
    /\ calls[c].pc = "launch"
    /\ \/ /\ sessions' = Append(sessions, NewSession(c))
          /\ calls' = [calls EXCEPT ![c] =
                           [@ EXCEPT !.pc = "newPage", !.browser = Len(sessions) + 1]]
       \/ /\ calls' = [calls EXCEPT ![c] = [@ EXCEPT !.pc = "returned", !.threw = TRUE]]
          /\ UNCHANGED sessions
    /\ OneCallIdle

\* const page = await browser.newPage()
CallNewPage(c) ==
    /\ calls[c].pc = "newPage"
    /\ LET b == BrowserOf(c) IN
       \/ /\ sessions' = [sessions EXCEPT ![b] =
                              [@ EXCEPT !.pages = @ + 1, !.usedBy = @ \cup {c}]]
          /\ calls' = [calls EXCEPT ![c] =
                           [@ EXCEPT !.pc = "page", !.page = b, !.at = 1]]
       \/ /\ sessions' = [sessions EXCEPT ![b] = [@ EXCEPT !.usedBy = @ \cup {c}]]
          /\ calls' = [calls EXCEPT ![c] = [@ EXCEPT !.pc = "finally", !.threw = TRUE]]
    /\ OneCallIdle

\* one awaited statement on the call's page: it resolves and the next
\* statement follows, or it rejects and the catch block rethrows
CallPageStep(c) ==
    /\ calls[c].pc = "page"
    /\ sessions' = [sessions EXCEPT ![calls[c].page] = [@ EXCEPT !.usedBy = @ \cup {c}]]
    /\ \/ calls' = [calls EXCEPT ![c] =
                        IF @.at = Len(PageSteps) THEN [@ EXCEPT !.pc = "finally"]
                        ELSE [@ EXCEPT !.at = @ + 1]]
       \/ calls' = [calls EXCEPT ![c] = [@ EXCEPT !.pc = "finally", !.threw = TRUE]]
    /\ OneCallIdle

\* finally { await browser.close() }, then the controller returns its
\* envelope; a rejecting close makes it the failure envelope
CallClose(c) ==
    /\ calls[c].pc = "finally"
    /\ sessions' = [sessions EXCEPT ![BrowserOf(c)] =
                        [@ EXCEPT !.open = FALSE, !.closedBy = @ \cup {c}]]
    /\ \/ calls' = [calls EXCEPT ![c] = [@ EXCEPT !.pc = "returned"]]
       \/ calls' = [calls EXCEPT ![c] = [@ EXCEPT !.pc = "returned", !.threw = TRUE]]
    /\ OneCallIdle

InitConcurrent ==
    /\ platform = "amazon"
    /\ pc = "concurrent"
    /\ browser = "none"
    /\ listing = <<>>
    /\ product = BlankPage
    /\ firstProductUrl = NoUrl
    /\ navigatedTo = <<>>
    /\ productDetails = NoDetails
    /\ error = ""
    /\ output = NoOutput
    /\ log = <<>>
    /\ request = [productName |-> "string"]
    /\ response = NoResponse
    /\ nodeEnv = "unread"
    /\ nav = "idle"
    /\ calls = [c \in Calls |-> IdleCall]
    /\ sessions = <<>>

NextConcurrent ==
    \E c \in Calls :
        \/ CallArrives(c)
        \/ CallLaunch(c)
        \/ CallNewPage(c)
        \/ CallPageStep(c)
        \/ CallClose(c)

SpecConcurrent == InitConcurrent /\ [][NextConcurrent]_vars

-----------------------------------------------------------------------------
(* Claims about findFirstNonSponsoredProduct (checked under SpecFilter).   *)

\* the four sponsorship signals as the specification lists them
AnySignal(c) ==
    \/ c.marker
    \/ LowerTrim(c.text) \in {"sponsored", "ad"}
    \/ c.cls
    \/ c.label

\* the i-th candidate is the one whose link was returned
Selected(i) ==
    /\ listing[i].href # <<>>
    /\ firstProductUrl = FullUrl(platform, listing[i].href)

\* C2: on every platform findFirstNonSponsoredProduct never returns the link
\* of a candidate for which one of the four sponsorship signals (marker
\* element, text node "sponsored" / "ad", class bucket, label element) is true.
C2_NeverSelectsSignalled ==
    pc = "found" =>
        \A i \in 1..Len(listing) : AnySignal(listing[i]) => ~Selected(i)

\* candidates 1..k-1 are sponsored and candidate k is organic, by the
\* platform's own classification
FirstOrganic(k) ==
    /\ k \in 1..Len(listing)
    /\ ~IsSponsored(platform, listing[k])
    /\ \A j \in 1..(k - 1) : IsSponsored(platform, listing[j])

\* C3 as stated: when candidates 1..K are sponsored and K+1 is organic, the
\* URL selected is that of candidate K+1, whatever follows.
C3_SelectsFirstOrganic ==
    pc = "found" =>
        \A k \in 1..Len(listing) : FirstOrganic(k) => Selected(k)

\* candidate k is organic and carries a link that the platform accepts
Eligible(k) ==
    /\ ~IsSponsored(platform, listing[k])
    /\ listing[k].link
    /\ listing[k].href # <<>>
    /\ platform \in {"amazon", "flipkart"} =>
           Includes(listing[k].href, ProductMarker(platform))

\* C3 amended: the URL selected is the absolute form of the href of the
\* first candidate, in page order, that is organic and carries an accepted
\* product link (candidate K+1 when it carries one, whatever follows it);
\* organic candidates without such a link are passed over, and the result
\* is null when no candidate is eligible.
C3_SelectsFirstEligible ==
    pc = "found" =>
        /\ \A k \in 1..Len(listing) :
              (Eligible(k) /\ \A j \in 1..(k - 1) : ~Eligible(j)) =>
                  /\ Selected(k)
                  /\ StartsWithHttp(firstProductUrl)
        /\ (\A k \in 1..Len(listing) : ~Eligible(k)) => firstProductUrl = NoUrl

\* C3 witness: a sponsored candidate, then an organic one with a relative
\* product link, which is selected although another eligible one follows
C3_Witness ==
    /\ pc = "found"
    /\ Len(listing) >= 3
    /\ IsSponsored(platform, listing[1])
    /\ Eligible(2)
    /\ ~StartsWithHttp(listing[2].href)
    /\ Selected(2)
    /\ Eligible(3)

-----------------------------------------------------------------------------
(* Claims about extractProductDetails (checked under SpecExtract).         *)

Extracted == pc \in {"extracted", "formatted"}

\* price and mrp are both known: numbers other than zero
BothKnown(d) ==
    /\ d.price.t = "num" /\ d.price.v > 0
    /\ d.mrp.t = "num" /\ d.mrp.v > 0

\* C5: on every platform, when the extracted price and mrp are both known
\* the record's discount is round((mrp - price) / mrp * 100), never the
\* number parsed from the discount badge.
C5_DiscountIsComputed ==
    (Extracted /\ BothKnown(productDetails)) =>
        /\ productDetails.discount.t = "num"
        /\ LET price == productDetails.price.v
               mrp   == productDetails.mrp.v
               d     == productDetails.discount.v
           IN  \* d is the integer nearest to 100 * (mrp - price) / mrp
               /\ 2 * d * mrp <= 200 * (mrp - price) + mrp
               /\ 200 * (mrp - price) + mrp < 2 * (d + 1) * mrp

\* the number of page elements whose text would qualify as an offer
RECURSIVE CountQualifying(_)
CountQualifying(els) ==
    IF els = <<>> THEN 0
    ELSE (IF Qualifies(Normalize(Head(els).text)) /\ Head(els).title THEN 1 ELSE 0)
         + CountQualifying(Tail(els))

\* C6: on every platform and for every page, the extracted offers list has
\* at most 3 entries, also when several selector groups contribute.
C6_AtMostThreeOffers ==
    Extracted =>
        /\ Len(productDetails.offers) <= 3
        /\ output.returned => Len(output.data.topOffers) <= 3

\* C6 witness: a page with more than three qualifying offer elements, of
\* which exactly three were kept
C6_Witness ==
    /\ pc = "extracted"
    /\ CountQualifying(product.offers1 \o product.offers2 \o product.offers3) > 3
    /\ Len(productDetails.offers) = 3

\* C7: on every platform, no two entries of the extracted offers list have
\* the same normalized (whitespace-collapsed, trimmed) string.
C7_NoDuplicateOffers ==
    Extracted =>
        \A i, j \in 1..Len(productDetails.offers) :
            i # j => Normalize(productDetails.offers[i]) # Normalize(productDetails.offers[j])

-----------------------------------------------------------------------------
(* Claims about one whole call (checked under Spec).                       *)

\* the controller function has returned
Returned == pc = "done"

\* the step was executed, with the given outcome
StepRan(step, ok) == \E i \in 1..Len(log) : log[i] = [step |-> step, ok |-> ok]

Launched == StepRan("launch", TRUE)

\* the positions of the log at which the step was executed
Runs(step) == {i \in 1..Len(log) : log[i].step = step}

\* C1: on every platform, a call whose browser launch succeeded calls
\* browser.close() exactly once before it returns, on every exit path
\* (success, a failure thrown by any step, a navigation or selector timeout);
\* close() is never called twice and no step of the try block runs after it.
C1_ClosedExactlyOnce ==
    /\ Cardinality(Runs("close")) <= 1
    /\ browser = "closed" <=> Runs("close") # {}
    /\ \A i \in Runs("close") :
           \A j \in (i + 1)..Len(log) : log[j].step \in {"format", "controllerCatch"}
    /\ (Returned /\ Launched) =>
           /\ Cardinality(Runs("close")) = 1
           /\ browser = "closed"

\* C1 witness: a call whose product-page selector wait timed out has
\* returned, and its browser was closed once
C1_Witness ==
    /\ Returned
    /\ Launched
    /\ StepRan("waitTitle", FALSE)
    /\ Cardinality(Runs("close")) = 1
    /\ browser = "closed"

NoOrganicResult == "No non-sponsored products found"

\* the results page is the page shown: it was loaded and no navigation has
\* replaced it
ResultsLoaded ==
    /\ StepRan("gotoSearch", TRUE) \/ StepRan("waitForNavigation", TRUE)
    /\ ~StepRan("gotoProduct", TRUE)

\* a navigation to a product page was issued
NavigationIssued == Runs("gotoProduct") # {} \/ navigatedTo # <<>>

EnvelopeErrorFor(message) ==
    IF StepRan("close", TRUE) THEN message ELSE Message("close")

AbsentFieldsAreNull(p, page, d, withAvailability) ==
    /\ (~page.priceEl.present /\ ~page.offscreenPrice.present) => d.price = Null
    /\ ~page.mrpEl.present => d.mrp = Null
    /\ (~page.discountEl.present /\ ~(page.priceEl.present /\ page.mrpEl.present)) =>
           d.discount = Null
    /\ ~page.ratingEl.present => d.rating = Null
    /\ ~page.countEl.present => d.totalRatings = Null
    /\ ~page.sellerEl.present => d.seller = Null
    /\ (withAvailability /\ p # "myntra" /\ ~page.availEl.present) =>
           d.availability = Null
    /\ (p = "flipkart" /\ ~page.deliveryEl.present) => d.delivery = Null

\* the call got through extraction and teardown without a step throwing
RanToTheEnd == StepRan("extract", TRUE) /\ StepRan("close", TRUE)

FirstFailure ==
    CHOOSE i \in 1..Len(log) : ~log[i].ok /\ \A j \in 1..(i - 1) : log[j].ok

\* C9: when a pipeline step fails (launch, page setup, search navigation,
\* selector wait, organic-result lookup, product navigation, extraction), no
\* later pipeline step is executed, the failure is converted exactly once,
\* by the controller, into { success: false, error: message } with that
\* step's message, and the browser is still closed.
C9_FailureCarriesStepMessage ==
    (/\ Returned
     /\ \E i \in 1..Len(log) : ~log[i].ok
     /\ log[FirstFailure].step # "close") =>
        /\ \A j \in (FirstFailure + 1)..Len(log) :
               log[j].step \in {"catch", "close", "controllerCatch"}
        /\ Cardinality(Runs("controllerCatch")) = 1
        /\ Runs("format") = {}
        /\ output = FailureEnvelope(Message(log[FirstFailure].step))
        /\ Launched => browser = "closed"

\* C10: on every platform the data of the success envelope contains
\* productLink, and it is the absolute product URL that the lookup resolved
\* and the call navigated to.
C10_ProductLinkIsNavigatedUrl ==
    (Returned /\ output.success) =>
        /\ output.data.productLink # <<>>
        /\ output.data.productLink = navigatedTo
        /\ output.data.productLink = firstProductUrl
        /\ StartsWithHttp(output.data.productLink)

\* C13: within one call no step is attempted again: the browser is launched
\* at most once, the search navigation is issued at most once,
\* findFirstNonSponsoredProduct runs at most once and the product-page
\* navigation is issued at most once, whatever the outcome of each step;
\* indeed no step of the call is executed twice.
C13_NoStepTwice ==
    /\ Cardinality(Runs("launch")) <= 1
    /\ Cardinality(Runs("gotoSearch") \cup Runs("waitForNavigation")) <= 1
    /\ Cardinality(Runs("findFirst")) <= 1
    /\ Cardinality(Runs("gotoProduct")) <= 1
    /\ \A i, j \in 1..Len(log) : log[i].step = log[j].step => i = j

\* C13 witness: the product-page navigation failed and the call returned
\* without launching, searching, looking up or navigating a second time
C13_Witness ==
    /\ Returned
    /\ StepRan("gotoProduct", FALSE)
    /\ Cardinality(Runs("launch")) = 1
    /\ Cardinality(Runs("gotoSearch") \cup Runs("waitForNavigation")) = 1
    /\ Cardinality(Runs("findFirst")) = 1
    /\ Cardinality(Runs("gotoProduct")) = 1

-----------------------------------------------------------------------------
(* Claims about the envelope's sentinels (checked under SpecExtract).      *)

\* C11: in the success envelope a sentinel stands only for an absent raw
\* value: discount is the percent string of the raw discount whenever that is
\* a known number (the computed 0 of price = mrp included) and null only
\* when the raw discount is null; price is the currency string of the raw
\* price whenever that is a known number, and "Not available" only when the
\* raw price is null.
C11_SentinelOnlyForAbsentValue ==
    pc = "formatted" =>
        /\ productDetails.discount.t = "num" =>
               output.data.discount = Percent(productDetails.discount.v)
        /\ output.data.discount = Null => productDetails.discount = Null
        /\ productDetails.price.t = "num" =>
               output.data.price = Rupees(productDetails.price.v)
        /\ output.data.price = Str("Not available") => productDetails.price = Null

-----------------------------------------------------------------------------
(* Claims about the interactive search (checked under Spec).               *)

\* C17: on Myntra, whenever submitting the query made the results page
\* load, the wait for navigation observes that navigation and the call goes
\* on to the results-container wait; no interleaving of the navigation's
\* completion with the call of waitForNavigation makes the call time out on
\* a results page that did load.
C17_NavigationWaitSeesLoadedPage ==
    (/\ platform = "myntra"
     /\ nav = "loaded"
     /\ Runs("waitForNavigation") # {}) =>
        /\ StepRan("waitForNavigation", TRUE)
        /\ Returned => output.error # Message("waitForNavigation")

\* the offer strings that the elements of one selector group stand for, by
\* the group's own rule: long enough once collapsed and trimmed (with a
\* title child on Myntra, without the "T&C" tail on Flipkart), and for
\* Amazon's bank offers an offer word in a text of more than 20 characters
GroupStrings(p, els, bank) ==
    { IF p = "flipkart" THEN Trim(BeforeTnC(Normalize(els[i].text)))
                        ELSE Normalize(els[i].text) :
        i \in { j \in 1..Len(els) :
                  /\ els[j].title
                  /\ Qualifies(Normalize(els[j].text))
                  /\ bank => (HasOfferWord(els[j].text) /\ CharLen(els[j].text) > 20) } }

\* the distinct qualifying offer strings of a page, over its selector groups
QualifyingStrings(p, page) ==
    GroupStrings(p, page.offers1, FALSE)
    \cup GroupStrings(p, page.offers2, FALSE)
    \cup GroupStrings(p, page.offers3, TRUE)

\* C18: offer collection goes on examining candidate elements, group by
\* group in priority order, until 3 qualifying offers are gathered or every
\* group is exhausted: a page with at least 3 distinct qualifying offer
\* strings gives an offers list of exactly 3 entries, also when elements
\* that are too short come first in a group.
C18_ThreeOffersWhenAvailable ==
    (Extracted /\ Cardinality(QualifyingStrings(platform, product)) >= 3) =>
        Len(productDetails.offers) = 3

\* the count a rating-count text stands for: the number before a "k" suffix
\* times 1000 (one decimal digit is 100), else its plain digits
CountMeant(el) ==
    IF el.k THEN el.int * 1000 + (IF el.frac >= 0 THEN el.frac * 100 ELSE 0)
    ELSE el.int

\* C19: when the text of the matched rating-count element carries the unit
\* suffix "k", the extracted count is the number before the suffix times
\* 1000, for integer prefixes ("2k" gives 2000) and for decimal prefixes
\* ("1.2k" gives 1200); a text without the suffix gives its plain digits,
\* thousands separators removed.
C19_CountSuffixMultiplies ==
    (/\ Extracted
     /\ product.countEl.present
     /\ ~product.countEl.junk
     /\ product.countEl.k \/ product.countEl.frac < 0) =>
        productDetails.totalRatings = Num(CountMeant(product.countEl))

-----------------------------------------------------------------------------
(* Claims about the product link's marker (checked under SpecFilter).      *)

\* C15: on every platform the URL that findFirstNonSponsoredProduct returns
\* contains the platform's product-detail path marker; an organic candidate
\* whose link is absent or lacks the marker is passed over and the scan
\* goes on with the next candidate in page order.
C15_ReturnedUrlHasMarker ==
    pc = "found" =>
        /\ firstProductUrl # NoUrl =>
               Includes(firstProductUrl, ProductMarker(platform))
        /\ \A i \in 1..Len(listing) :
               (~listing[i].link \/ ~Includes(listing[i].href, ProductMarker(platform)))
                   => ~Selected(i)

-----------------------------------------------------------------------------
(* Claims about the route handlers (C12 under SpecRoute, C20 under Spec).  *)

\* the handler answered a request whose awaited controller rejected
AnsweredRejection == response.sent /\ error # "" /\ ~output.returned

\* the name a failure response gives the platform
PlatformLabel(p) ==
    CASE p = "amazon" -> "Amazon" [] p = "flipkart" -> "Flipkart" [] p = "myntra" -> "Myntra"

PassedValidation == ~RejectsRequest(platform, request)

\* C20: the controllers never reject, so a handler whose request passes
\* validation always answers HTTP 200 with the controller's envelope
\* unchanged, for failed scrapes too; no scrape failure reaches the 500
\* branch; a request without productName is answered 400 and no browser
\* is launched for it.
C20_ValidRequestAnswered200 ==
    /\ pc # "rejected"
    /\ (response.sent /\ PassedValidation) =>
           /\ response.status = 200
           /\ output.returned
           /\ response.body = RelayBody(output)
    /\ response.sent => response.status # 500
    /\ ~PassedValidation =>
           /\ log = <<>>
           /\ browser = "none"
           /\ response.sent => response.status = 400

\* a failed scrape, its teardown failed as well, relayed with status 200
C20_Witness ==
    /\ response.sent
    /\ response.status = 200
    /\ response.body.relayed
    /\ ~response.body.envelope.success
    /\ StepRan("close", FALSE)

-----------------------------------------------------------------------------
(* Claims about concurrent calls (checked under SpecConcurrent).           *)

\* the sessions call c launched
LaunchedBy(c) == {b \in 1..Len(sessions) : sessions[b].launchedBy = c}

\* the sessions still open
OpenSessions == {b \in 1..Len(sessions) : sessions[b].open}

\* C14: when calls are in flight together, on the same or on different
\* platforms, each call launches and owns exactly one browser session, acts
\* only on its own page and closes only its own session; the open sessions
\* never outnumber the calls in flight; no call's failure or teardown
\* touches another call's session.
C14_CallsOwnTheirSessions ==
    /\ \A c \in Calls :
           /\ Cardinality(LaunchedBy(c)) <= 1
           /\ calls[c].browser # 0 => LaunchedBy(c) = {calls[c].browser}
           /\ calls[c].page # 0 => calls[c].page = calls[c].browser
    /\ \A b \in 1..Len(sessions) :
           /\ sessions[b].usedBy \subseteq {sessions[b].launchedBy}
           /\ sessions[b].closedBy \subseteq {sessions[b].launchedBy}
           /\ sessions[b].open => InFlight(sessions[b].launchedBy)
    /\ Cardinality(OpenSessions) <= Cardinality({c \in Calls : InFlight(c)})

\* two calls were in flight with a session each; one of them failed and
\* closed its session while the other's session is still open
C14_Witness ==
    \E c1, c2 \in Calls :
        /\ c1 # c2
        /\ calls[c1].pc = "returned" /\ calls[c1].threw
        /\ calls[c1].browser # 0
        /\ sessions[calls[c1].browser].closedBy = {c1}
        /\ calls[c2].pc = "page"
        /\ calls[c2].browser > calls[c1].browser
        /\ sessions[calls[c2].browser].open

-----------------------------------------------------------------------------
(* Claims about termination (checked under SpecLive).                      *)

\* C16: every call eventually returns and releases its browser session:
\* each step that suspends the call (launch, page set-up, navigations,
\* selector waits, click, type and key press, settle delays, in-page
\* evaluation, teardown) is bounded by a per-step timeout or a fixed delay.
C16_EveryCallReturns ==
    (pc = "start") ~> (Returned /\ browser # "open")

=============================================================================
